---- MODULE Spec2Model ----
(***************************************************************************)
(* The star-registry ledger of src/src/blockchain.js (class Blockchain).   *)
(*                                                                         *)
(* State: the chain array, the height counter, the wall clock, and one     *)
(* record per call in flight.  A call runs synchronously up to its next    *)
(* `await`; every action below is one such synchronous segment, and calls  *)
(* interleave only at their await points, as on the JavaScript event loop. *)
(* Call 0 is the initializeChain() call made by the constructor.           *)
(* call[p] records the arguments of call p, the clock it read (at) and the *)
(* length of the chain when it was made (seen).  sealq lists the calls     *)
(* suspended at `await block.validate()` in _addBlock, in the order they   *)
(* suspended: that await takes the same number of microtask hops in every  *)
(* call, so the microtask queue resumes them in that order.                *)
(***************************************************************************)
EXTENDS Integers, Sequences, FiniteSets, TLC

VARIABLES chain, height, clock, ticks, pc, call, local, ret, sealq

vars == <<chain, height, clock, ticks, pc, call, local, ret, sealq>>

-----------------------------------------------------------------------------
(* Bounds of the model *)

\* number of calls made on the ledger after construction
NumCalls == 2
\* number of seconds the clock advances
MaxTicks == 1
\* the clock (unix seconds) at construction
ClockStart == 1000

\* const timeLimit = 5 * 60
timeLimit == 300

Calls == 1..NumCalls
Procs == 0..NumCalls

Addresses == {"addr1", "addr2"}
\* the star a call submits: an opaque payload, one per call
StarOf(p) == <<"star", p>>

-----------------------------------------------------------------------------
(* Strings: a string is a sequence of symbols; ":" separates, "0".."9" are *)
(* digits.                                                                 *)

Digits == <<"0", "1", "2", "3", "4", "5", "6", "7", "8", "9">>

IsDigit(c) == \E d \in 1..10 : Digits[d] = c

DigitValue(c) == (CHOOSE d \in 1..10 : Digits[d] = c) - 1

\* Number.prototype.toString for a non-negative integer
RECURSIVE NumberToString(_)
NumberToString(n) ==
  IF n < 10 THEN <<Digits[n + 1]>>
  ELSE NumberToString(n \div 10) \o <<Digits[(n % 10) + 1]>>

\* String.prototype.split(":"): the fields between the separators
RECURSIVE SplitFrom(_, _, _)
SplitFrom(s, i, cur) ==
  IF i > Len(s) THEN <<cur>>
  ELSE IF s[i] = ":" THEN <<cur>> \o SplitFrom(s, i + 1, <<>>)
  ELSE SplitFrom(s, i + 1, Append(cur, s[i]))

Split(s) == SplitFrom(s, 1, <<>>)

\* a number or NaN
NaN == [nan |-> TRUE, val |-> 0]
Num(n) == [nan |-> FALSE, val |-> n]

\* the value of the longest prefix of digits
RECURSIVE DigitsValue(_, _, _)
DigitsValue(s, i, acc) ==
  IF i > Len(s) \/ ~IsDigit(s[i]) THEN acc
  ELSE DigitsValue(s, i + 1, 10 * acc + DigitValue(s[i]))

\* parseInt(tokens[1]): NaN for undefined and for a field that starts with
\* no digit, else the value of its leading digits
ParseIntField(tokens) ==
  IF Len(tokens) < 2 THEN NaN
  ELSE IF Len(tokens[2]) = 0 \/ ~IsDigit(tokens[2][1]) THEN NaN
  ELSE Num(DigitsValue(tokens[2], 1, 0))

\* currentTime - time > timeLimit ; any comparison with NaN is false
ElapsedExceeds(currentTime, time, limit) ==
  IF time.nan THEN FALSE ELSE currentTime - time.val > limit

\* a message argument: a string, or undefined
Undefined == [str |-> FALSE, text |-> <<>>]
Str(s) == [str |-> TRUE, text |-> s]

\* `${address}:${currentTime}:starRegistry`
ChallengeMessage(address, currentTime) ==
  Str(<<address, ":">> \o NumberToString(currentTime) \o <<":", "starRegistry">>)

-----------------------------------------------------------------------------
(* Blocks *)

Null == <<>>

\* the payload encoding of the Block constructor
Encode(data) == <<"hex", data>>

\* new BlockClass.Block(data)
NewBlock(data) ==
  [hash |-> Null, height |-> 0, body |-> Encode(data), time |-> 0,
   previousBlockHash |-> Null]

NoBlock == NewBlock([none |-> TRUE])

GenesisData == [data |-> "Genesis Block"]

StarData(star, address) == [star |-> star, owner |-> address]

\* JSON.stringify(block): every field, in order
Stringify(block) ==
  <<block.hash, block.height, block.body, block.time, block.previousBlockHash>>

\* SHA256(...).toString(): a collision-free digest of its input
SHA256(text) == <<"sha256", text>>

\* block.validate(): the stored hash equals the hash recomputed with the
\* hash field null
BlockValidate(block) ==
  block.hash = SHA256(Stringify([block EXCEPT !.hash = Null]))

\* bitcoinMessage.verify(message, address, signature): the signature was made
\* by the key of `address` over exactly `message`
Sign(signer, message) == [signer |-> signer, msg |-> message]

Verify(message, address, signature) ==
  signature.signer = address /\ signature.msg = message

-----------------------------------------------------------------------------
(* Errors *)

ErrExpired == "Cannot verify message as the time limit is exceeded"
ErrVerification == "Message verification failed"
ErrRegister == "Unable to register block with star object"
ErrAddBlock == "An error occurred while adding the block"
ErrDefective == "Unable to add block to defective chain!"
ErrInvalidBlock == "Unable to add block because it is invalid"

Pending == [status |-> "pending", err |-> "", cause |-> "", val |-> Null]
Resolved(v) == [status |-> "resolved", err |-> "", cause |-> "", val |-> v]
Rejected(e, c) == [status |-> "rejected", err |-> e, cause |-> c, val |-> Null]

NoCall ==
  [kind |-> "none", address |-> "", message |-> Undefined,
   signature |-> Sign("", Undefined), star |-> Null, at |-> 0, seen |-> 0,
   arg |-> 0, verified |-> FALSE]

NoLocal ==
  [block |-> NoBlock, results |-> <<>>, errors |-> <<>>, status |-> FALSE,
   added |-> Pending, decoded |-> <<>>, scan |-> <<>>, stars |-> <<>>]

-----------------------------------------------------------------------------
(* validateChain *)

\* the synchronous part: one block.validate() per block of the chain
ValidationResults(ch) == [i \in 1..Len(ch) |-> BlockValidate(ch[i])]

\* what runs after `await Promise.all(...)`: `block` is not in scope in the
\* forEach callback nor in the second loop, so the first read of it throws a
\* ReferenceError inside the async executor and the promise never settles
ValidateChainThrows(ch, results) ==
  \/ \E i \in 1..Len(results) : ~results[i]
  \/ \E i \in 1..Len(ch) : i - 1 > 0

\* the list resolved when nothing threw: nothing was pushed
ValidateChainErrorLog(ch, results) == <<>>

-----------------------------------------------------------------------------
(* The state after `new Blockchain()` has returned: chain = [], height = -1,*)
(* and initializeChain() has run up to the first await, which is           *)
(* `await Promise.all(...)` inside validateChain inside _addBlock.         *)

Init ==
  /\ chain = <<>>
  /\ height = -1
  /\ clock = ClockStart
  /\ ticks = 0
  /\ pc = [p \in Procs |-> IF p = 0 THEN "vc_await" ELSE "idle"]
  /\ call = [p \in Procs |->
               IF p = 0 THEN [NoCall EXCEPT !.kind = "initializeChain"]
               ELSE NoCall]
  /\ local = [p \in Procs |->
                IF p = 0 THEN [NoLocal EXCEPT !.block = NewBlock(GenesisData),
                                              !.results = ValidationResults(<<>>)]
                ELSE NoLocal]
  /\ ret = [p \in Procs |-> Pending]
  /\ sealq = <<>>

\* calls are numbered in the order they are made
CanStart(p) ==
  /\ p \in Calls
  /\ pc[p] = "idle"
  /\ \A q \in Calls : q < p => pc[q] # "idle"

\* the clock moves forward
Tick ==
  /\ ticks < MaxTicks
  /\ clock' = clock + 1
  /\ ticks' = ticks + 1
  /\ UNCHANGED <<chain, height, pc, call, local, ret, sealq>>

-----------------------------------------------------------------------------
(* _addBlock(block), entered from initializeChain and from submitStar *)

\* the call of _addBlock up to its first await: validateChain() has called
\* validate() on every block and awaits Promise.all
EnterAddBlock(p, block) ==
  /\ pc' = [pc EXCEPT ![p] = "vc_await"]
  /\ local' = [local EXCEPT ![p] = [NoLocal EXCEPT
                                      !.block = block,
                                      !.results = ValidationResults(chain)]]

\* validateChain after Promise.all: throws (and never settles), or resolves
\* the error log, to _addBlock or to the caller of validateChain()
ValidateChainResume(p) ==
  /\ pc[p] = "vc_await"
  /\ IF ValidateChainThrows(chain, local[p].results)
     THEN /\ pc' = [pc EXCEPT ![p] = "hung"]
          /\ local' = local
          /\ ret' = ret
     ELSE IF call[p].kind = "validateChain"
     THEN /\ pc' = [pc EXCEPT ![p] = "done"]
          /\ local' = [local EXCEPT ![p] = NoLocal]
          /\ ret' = [ret EXCEPT ![p] =
                       Resolved(ValidateChainErrorLog(chain, local[p].results))]
     ELSE /\ pc' = [pc EXCEPT ![p] = "ab_await_vc"]
          /\ local' = [local EXCEPT ![p].errors =
                         ValidateChainErrorLog(chain, local[p].results)]
          /\ ret' = ret
  /\ UNCHANGED <<chain, height, clock, ticks, call, sealq>>

\* validateChain() called on its own, up to `await Promise.all(...)`
ValidateChain(p) ==
  /\ CanStart(p)
  /\ call' = [call EXCEPT ![p] = [NoCall EXCEPT !.kind = "validateChain",
                                                !.seen = Len(chain)]]
  /\ pc' = [pc EXCEPT ![p] = "vc_await"]
  /\ local' = [local EXCEPT ![p] = [NoLocal EXCEPT
                                      !.results = ValidationResults(chain)]]
  /\ UNCHANGED <<chain, height, clock, ticks, ret, sealq>>

\* (mutant) the height given to the block counts from one
SealBlockHeightFromOne(block) ==
  LET b1 == IF height > -1
            THEN [block EXCEPT !.previousBlockHash = chain[Len(chain)].hash]
            ELSE block
      b2 == [b1 EXCEPT !.time = clock, !.height = Len(chain) + 1]
  IN  [b2 EXCEPT !.hash = SHA256(Stringify(b2))]

\* the block as _addBlock seals it: previousBlockHash, time, height, hash
SealBlock(block) ==
  LET b1 == IF height > -1
            THEN [block EXCEPT !.previousBlockHash = chain[Len(chain)].hash]
            ELSE block
      b2 == [b1 EXCEPT !.time = clock, !.height = Len(chain)]
  IN  [b2 EXCEPT !.hash = SHA256(Stringify(b2))]

\* _addBlock after `await self.validateChain()`: throws on a non-empty error
\* list, else seals the block and awaits block.validate()
AddBlockSeal(p) ==
  /\ pc[p] = "ab_await_vc"
  /\ IF Len(local[p].errors) > 0
     THEN /\ pc' = [pc EXCEPT ![p] = "caller_await"]
          /\ local' = [local EXCEPT ![p].added = Rejected(ErrAddBlock, ErrDefective)]
          /\ sealq' = sealq
     ELSE /\ pc' = [pc EXCEPT ![p] = "ab_await_validate"]
          /\ local' = [local EXCEPT
                         ![p].block = SealBlock(local[p].block),
                         ![p].status = BlockValidate(SealBlock(local[p].block))]
          /\ sealq' = Append(sealq, p)
  /\ UNCHANGED <<chain, height, clock, ticks, call, ret>>

\* (mutant) the block is pushed and the height left as it was
PushBlockHeightForgotten(block) ==
  /\ chain' = Append(chain, block)
  /\ height' = height

\* (mutant) the block is put in front of the chain
PushBlockAtFront(block) ==
  /\ chain' = <<block>> \o chain
  /\ height' = height + 1

\* self.chain.push(block); self.height += 1
PushBlock(block) ==
  /\ chain' = Append(chain, block)
  /\ height' = height + 1

\* (mutant) the calls suspended at `await block.validate()` resume in any
\* order
AddBlockCommitAnyOrder(p) ==
  /\ pc[p] = "ab_await_validate"
  /\ \E k \in 1..Len(sealq) : sealq[k] = p
  /\ sealq' = SelectSeq(sealq, LAMBDA q : q # p)
  /\ pc' = [pc EXCEPT ![p] = "caller_await"]
  /\ IF ~local[p].status
     THEN /\ local' = [local EXCEPT ![p].added = Rejected(ErrInvalidBlock, "")]
          /\ UNCHANGED <<chain, height>>
     ELSE /\ PushBlock(local[p].block)
          /\ local' = [local EXCEPT ![p].added = Resolved(local[p].block)]
  /\ UNCHANGED <<clock, ticks, call, ret>>

\* (mutant) _addBlock resolves with the block without having pushed it
AddBlockCommitUnpushed(p) ==
  /\ pc[p] = "ab_await_validate"
  /\ sealq # <<>> /\ Head(sealq) = p
  /\ sealq' = Tail(sealq)
  /\ pc' = [pc EXCEPT ![p] = "caller_await"]
  /\ local' = [local EXCEPT ![p].added =
                 IF ~local[p].status THEN Rejected(ErrInvalidBlock, "")
                 ELSE Resolved(local[p].block)]
  /\ UNCHANGED <<chain, height, clock, ticks, call, ret>>

\* _addBlock after `await block.validate()`: rejects an invalid block, else
\* pushes it, increments the height and resolves
AddBlockCommit(p) ==
  /\ pc[p] = "ab_await_validate"
  /\ sealq # <<>> /\ Head(sealq) = p
  /\ sealq' = Tail(sealq)
  /\ pc' = [pc EXCEPT ![p] = "caller_await"]
  /\ IF ~local[p].status
     THEN /\ local' = [local EXCEPT ![p].added = Rejected(ErrInvalidBlock, "")]
          /\ UNCHANGED <<chain, height>>
     ELSE /\ PushBlock(local[p].block)
          /\ local' = [local EXCEPT ![p].added = Resolved(local[p].block)]
  /\ UNCHANGED <<clock, ticks, call, ret>>

-----------------------------------------------------------------------------
(* initializeChain() *)

InitializeChain(p) ==
  /\ CanStart(p)
  /\ call' = [call EXCEPT ![p] = [NoCall EXCEPT !.kind = "initializeChain",
                                                !.seen = Len(chain)]]
  /\ IF height = -1
     THEN /\ EnterAddBlock(p, NewBlock(GenesisData))
          /\ ret' = ret
     ELSE /\ pc' = [pc EXCEPT ![p] = "done"]
          /\ ret' = [ret EXCEPT ![p] = Resolved(Null)]
          /\ local' = local
  /\ UNCHANGED <<chain, height, clock, ticks, sealq>>

\* after `await this._addBlock(block)`
InitializeChainReturn(p) ==
  /\ pc[p] = "caller_await"
  /\ call[p].kind = "initializeChain"
  /\ pc' = [pc EXCEPT ![p] = "done"]
  /\ ret' = [ret EXCEPT ![p] =
               IF local[p].added.status = "resolved" THEN Resolved(Null)
               ELSE local[p].added]
  /\ local' = [local EXCEPT ![p] = NoLocal]
  /\ UNCHANGED <<chain, height, clock, ticks, call, sealq>>

-----------------------------------------------------------------------------
(* getChainHeight() *)

\* resolve(this.height): the height as it is, a JavaScript number
GetChainHeight(p) ==
  /\ CanStart(p)
  /\ call' = [call EXCEPT ![p] = [NoCall EXCEPT !.kind = "getChainHeight",
                                                !.seen = Len(chain)]]
  /\ pc' = [pc EXCEPT ![p] = "done"]
  /\ ret' = [ret EXCEPT ![p] = Resolved(Num(height))]
  /\ UNCHANGED <<chain, height, clock, ticks, local, sealq>>

-----------------------------------------------------------------------------
(* requestMessageOwnershipVerification(address) *)

RequestMessageOwnershipVerification(p, address) ==
  /\ CanStart(p)
  /\ call' = [call EXCEPT ![p] =
                [NoCall EXCEPT !.kind = "requestMessageOwnershipVerification",
                               !.address = address]]
  /\ pc' = [pc EXCEPT ![p] = "done"]
  /\ ret' = [ret EXCEPT ![p] = Resolved(ChallengeMessage(address, clock))]
  /\ UNCHANGED <<chain, height, clock, ticks, local, sealq>>

-----------------------------------------------------------------------------
(* submitStar(address, message, signature, star) *)

\* the messages a client submits for an address: the challenge issued at
\* construction time, the one issued timeLimit seconds earlier, a text without
\* ':', a text whose second field is not a number, and no message at all
MessagesFor(address) ==
  { ChallengeMessage(address, ClockStart),
    ChallengeMessage(address, ClockStart - timeLimit),
    Str(<<"hello">>),
    Str(<<address, ":", "soon", ":", "starRegistry">>),
    Undefined }

\* the signatures a client submits: by the right key over the message, by
\* another key, or over another text
SignaturesFor(address, message) ==
  { Sign(address, message) }
    \cup { Sign(a, message) : a \in Addresses \ {address} }
    \cup { Sign(address, Str(<<"other">>)) }

\* (mutant) the outcome of bitcoinMessage.verify is not acted upon
SubmitGateUnverified(address, message, signature, currentTime) ==
  IF ~message.str
  THEN Rejected(ErrRegister, "TypeError")
  ELSE IF ElapsedExceeds(currentTime, ParseIntField(Split(message.text)),
                         timeLimit)
  THEN Rejected(ErrExpired, "")
  ELSE Pending

\* (mutant) the signature is checked before the age of the message
SubmitGateVerifyFirst(address, message, signature, currentTime) ==
  IF ~message.str
  THEN Rejected(ErrRegister, "TypeError")
  ELSE IF ~Verify(message, address, signature)
  THEN Rejected(ErrVerification, "")
  ELSE IF ElapsedExceeds(currentTime, ParseIntField(Split(message.text)),
                         timeLimit)
  THEN Rejected(ErrExpired, "")
  ELSE Pending

\* whether the call reaches `bitcoinMessage.verify(...)`: it does unless
\* message.split threw or the expiry check returned before it
VerifyInvoked(address, message, currentTime) ==
  /\ message.str
  /\ ~ElapsedExceeds(currentTime, ParseIntField(Split(message.text)),
                     timeLimit)

\* submitStar up to the construction of the block: where the checks of the
\* message, its age and the signature send the call
SubmitGate(address, message, signature, currentTime) ==
  IF ~message.str
  THEN \* message.split is not a function: caught by the error handler
       Rejected(ErrRegister, "TypeError")
  ELSE LET tokens == Split(message.text)
           time == ParseIntField(tokens)
       IN  IF ElapsedExceeds(currentTime, time, timeLimit)
           THEN Rejected(ErrExpired, "")
           ELSE IF ~Verify(message, address, signature)
           THEN Rejected(ErrVerification, "")
           ELSE Pending

\* the synchronous part of submitStar: the checks, then _addBlock up to its
\* first await
SubmitStar(p, address, message, signature, star) ==
  /\ CanStart(p)
  /\ call' = [call EXCEPT ![p] =
                [kind |-> "submitStar", address |-> address, message |-> message,
                 signature |-> signature, star |-> star, at |-> clock,
                 seen |-> Len(chain), arg |-> 0,
                 verified |-> VerifyInvoked(address, message, clock)]]
  /\ IF SubmitGate(address, message, signature, clock).status = "rejected"
     THEN /\ pc' = [pc EXCEPT ![p] = "done"]
          /\ ret' = [ret EXCEPT ![p] =
                       SubmitGate(address, message, signature, clock)]
          /\ local' = local
     ELSE /\ EnterAddBlock(p, NewBlock(StarData(star, address)))
          /\ ret' = ret
  /\ UNCHANGED <<chain, height, clock, ticks, sealq>>

\* after `await self._addBlock(block)`: resolve(block), or the error handler
SubmitStarReturn(p) ==
  /\ pc[p] = "caller_await"
  /\ call[p].kind = "submitStar"
  /\ pc' = [pc EXCEPT ![p] = "done"]
  /\ ret' = [ret EXCEPT ![p] =
               IF local[p].added.status = "resolved"
               THEN Resolved(local[p].block)
               ELSE Rejected(ErrRegister, local[p].added.err)]
  /\ local' = [local EXCEPT ![p] = NoLocal]
  /\ UNCHANGED <<chain, height, clock, ticks, call, sealq>>

-----------------------------------------------------------------------------
(* getBlockByHeight(height) *)

\* the heights asked for: from one below the first to one above the last
HeightArgs == -1 .. NumCalls + 1

\* self.chain.find(p => p.height === height): the first block of the chain
\* whose height field is the one asked for; undefined when there is none
FindByHeight(ch, h) ==
  IF \E i \in 1..Len(ch) : ch[i].height = h
  THEN ch[CHOOSE i \in 1..Len(ch) :
            /\ ch[i].height = h
            /\ \A j \in 1..(i - 1) : ch[j].height # h]
  ELSE Null

GetBlockByHeight(p, h) ==
  /\ CanStart(p)
  /\ call' = [call EXCEPT ![p] = [NoCall EXCEPT !.kind = "getBlockByHeight",
                                                !.arg = h,
                                                !.seen = Len(chain)]]
  /\ pc' = [pc EXCEPT ![p] = "done"]
  /\ ret' = [ret EXCEPT ![p] = Resolved(FindByHeight(chain, h))]
  /\ UNCHANGED <<chain, height, clock, ticks, local, sealq>>

-----------------------------------------------------------------------------
(* getStarsByWalletAddress(address) *)

\* block.getBData(): the payload decoded from the body; the promise rejects
\* when the body is not a valid encoding
GetBData(block) ==
  IF Len(block.body) = 2 /\ block.body[1] = "hex"
  THEN Resolved(block.body[2])
  ELSE Rejected("DecodeError", "")

\* `blockAddr && blockAddr === address`: the genesis payload has no owner
OwnedBy(data, address) ==
  "owner" \in DOMAIN data /\ data.owner = address

\* the synchronous part: filter starts one async callback per block, each
\* runs up to `await block.getBData()`; then resolve(stars) is called with
\* the array the callbacks have not yet pushed into
GetStarsByWalletAddress(p, address) ==
  /\ CanStart(p)
  /\ call' = [call EXCEPT ![p] =
                [NoCall EXCEPT !.kind = "getStarsByWalletAddress",
                               !.address = address, !.seen = Len(chain)]]
  /\ pc' = [pc EXCEPT ![p] = "gs_scan"]
  /\ local' = [local EXCEPT ![p] =
                 [NoLocal EXCEPT
                    !.decoded = [i \in 1..Len(chain) |-> GetBData(chain[i])],
                    !.scan = [i \in 1..Len(chain) |-> GetBData(chain[i])]]]
  /\ UNCHANGED <<chain, height, clock, ticks, ret, sealq>>

\* the callback of the next block resumes after its await: it pushes the
\* payload of a block of the address, and logs a decode failure
GetStarsCallbackResume(p) ==
  /\ pc[p] = "gs_scan"
  /\ local[p].scan # <<>>
  /\ LET data == Head(local[p].scan)
     IN  local' = [local EXCEPT
                     ![p].scan = Tail(local[p].scan),
                     ![p].stars =
                       IF data.status = "resolved"
                          /\ OwnedBy(data.val, call[p].address)
                       THEN Append(local[p].stars, data.val)
                       ELSE local[p].stars]
  /\ pc' = [pc EXCEPT ![p] =
               IF Tail(local[p].scan) = <<>> /\ ret[p] # Pending
               THEN "done" ELSE "gs_scan"]
  /\ UNCHANGED <<chain, height, clock, ticks, call, ret, sealq>>

\* the caller's reaction to the resolved promise runs and reads the array.
\* It was queued by another await than the callbacks' continuations, and
\* whether it runs before or after them depends on the number of microtask
\* hops each await takes: the array is read as it is at that moment
GetStarsDeliver(p) ==
  /\ pc[p] = "gs_scan"
  /\ ret[p] = Pending
  /\ ret' = [ret EXCEPT ![p] = Resolved(local[p].stars)]
  /\ pc' = [pc EXCEPT ![p] =
               IF local[p].scan = <<>> THEN "done" ELSE "gs_scan"]
  /\ UNCHANGED <<chain, height, clock, ticks, call, local, sealq>>

-----------------------------------------------------------------------------

Next ==
  \/ Tick
  \/ \E p \in Procs : ValidateChainResume(p)
  \/ \E p \in Procs : AddBlockSeal(p)
  \/ \E p \in Procs : AddBlockCommit(p)
  \/ \E p \in Procs : InitializeChainReturn(p)
  \/ \E p \in Procs : SubmitStarReturn(p)
  \/ \E p \in Calls : InitializeChain(p)
  \/ \E p \in Calls : GetChainHeight(p)
  \/ \E p \in Calls : ValidateChain(p)
  \/ \E p \in Calls, h \in HeightArgs : GetBlockByHeight(p, h)
  \/ \E p \in Calls, a \in Addresses : GetStarsByWalletAddress(p, a)
  \/ \E p \in Calls : GetStarsCallbackResume(p)
  \/ \E p \in Calls : GetStarsDeliver(p)
  \/ \E p \in Calls, a \in Addresses : RequestMessageOwnershipVerification(p, a)
  \/ \E p \in Calls, a \in Addresses :
       \E m \in MessagesFor(a) : \E g \in SignaturesFor(a, m) :
         SubmitStar(p, a, m, g, StarOf(p))

Spec == Init /\ [][Next]_vars

\* The chain is a public field: a test can overwrite the body of a block in
\* place with bytes that are no valid encoding of a payload.
Garbage == <<"garbage">>

CorruptBody(i) ==
  /\ i <= Len(chain)
  /\ GetBData(chain[i]).status = "resolved"
  /\ chain' = [chain EXCEPT ![i].body = Garbage]
  /\ UNCHANGED <<height, clock, ticks, pc, call, local, ret, sealq>>

\* the ledger with a test corrupting blocks, under accepted submitStar calls
\* and getStarsByWalletAddress calls
NextCorrupt ==
  \/ \E i \in 1..(NumCalls + 1) : CorruptBody(i)
  \/ \E p \in Procs : ValidateChainResume(p)
  \/ \E p \in Procs : AddBlockSeal(p)
  \/ \E p \in Procs : AddBlockCommit(p)
  \/ \E p \in Procs : InitializeChainReturn(p)
  \/ \E p \in Procs : SubmitStarReturn(p)
  \/ \E p \in Calls, a \in Addresses :
       SubmitStar(p, a, ChallengeMessage(a, ClockStart),
                  Sign(a, ChallengeMessage(a, ClockStart)), StarOf(p))
  \/ \E p \in Calls, a \in Addresses : GetStarsByWalletAddress(p, a)
  \/ \E p \in Calls : GetStarsCallbackResume(p)
  \/ \E p \in Calls : GetStarsDeliver(p)

CorruptSpec == Init /\ [][NextCorrupt]_vars

\* every call that can take a step eventually takes it: the event loop runs
\* every queued continuation
FairSpec == Spec /\ \A p \in Procs :
  /\ WF_vars(ValidateChainResume(p))
  /\ WF_vars(AddBlockSeal(p))
  /\ WF_vars(AddBlockCommit(p))
  /\ WF_vars(InitializeChainReturn(p))
  /\ WF_vars(SubmitStarReturn(p))

-----------------------------------------------------------------------------
(* Vocabulary of the properties *)

IsGenesisBlock(b) == b.body = Encode(GenesisData)

IsStarBlock(b) == ~IsGenesisBlock(b)

\* the block a submitStar call constructs holds its star and its address
BlockOfCall(b, p) == b.body = Encode(StarData(call[p].star, call[p].address))

LinkOK(i) == chain[i].previousBlockHash = chain[i - 1].hash

\* the chain is fully valid: every block validates and every link holds
ChainValid ==
  /\ \A i \in 1..Len(chain) : BlockValidate(chain[i])
  /\ \A i \in 2..Len(chain) : LinkOK(i)

IsSubmit(p) == call[p].kind = "submitStar"

\* the timestamp embedded in the message of call p
EmbeddedTime(p) == ParseIntField(Split(call[p].message.text))

\* the message of call p parses into address:timestamp:tag
WellFormed(p) ==
  /\ call[p].message.str
  /\ Len(Split(call[p].message.text)) = 3
  /\ \A k \in 1..Len(Split(call[p].message.text)[2]) :
       IsDigit(Split(call[p].message.text)[2][k])
  /\ Len(Split(call[p].message.text)[2]) > 0

\* elapsed = currentUnixSeconds - embeddedTimestamp, for a well-formed message
Elapsed(p) == call[p].at - EmbeddedTime(p).val

SignatureOK(p) == Verify(call[p].message, call[p].address, call[p].signature)

Settled(p) == pc[p] = "done"

InFlight(p) ==
  pc[p] \in {"vc_await", "ab_await_vc", "ab_await_validate", "caller_await"}

-----------------------------------------------------------------------------
(* C1 -- Hash-chain invariant: in every reachable state, every block after *)
(* the first holds the hash of its predecessor as previousBlockHash, and   *)
(* the first block's previousBlockHash is the null sentinel.               *)

C1_HashChainInvariant ==
  (\A p \in Calls : call[p].kind # "initializeChain"
                      /\ (IsSubmit(p) => call[p].seen >= 1)) =>
     /\ Len(chain) > 0 => chain[1].previousBlockHash = Null
     /\ \A i \in 2..Len(chain) : LinkOK(i)

(* C2 -- Concurrent append serialization: when every call is a valid       *)
(* submitStar made on the initialized ledger before any other has pushed   *)
(* its block, the block at index i has height i, the links are unbroken,   *)
(* and once all calls have completed the height is the number of calls and *)
(* every star appears exactly once.                                        *)

ValidSubmit(p) ==
  /\ IsSubmit(p)
  /\ WellFormed(p)
  /\ Elapsed(p) <= timeLimit
  /\ SignatureOK(p)

C2_ConcurrentAppendSerialization ==
  (\A p \in Calls : pc[p] # "idle" /\ ValidSubmit(p) /\ call[p].seen = 1) =>
     /\ \A i \in 1..Len(chain) : chain[i].height = i - 1
     /\ \A i \in 2..Len(chain) : LinkOK(i)
     /\ (\A p \in Procs : Settled(p)) =>
          /\ height = NumCalls
          /\ \A p \in Calls :
               Cardinality({i \in 1..Len(chain) : BlockOfCall(chain[i], p)}) = 1

(* C3 -- Idempotent initialize: the chain never holds two genesis blocks,  *)
(* and once every call has completed, with initializeChain() called again  *)
(* and no star submitted, the chain is the one genesis block, height 0.    *)

C3_IdempotentInitialize ==
  /\ Cardinality({i \in 1..Len(chain) : IsGenesisBlock(chain[i])}) <= 1
  /\ ((\A p \in Procs : Settled(p)) /\ (\A p \in Calls : ~IsSubmit(p))) =>
       (Len(chain) = 1 /\ IsGenesisBlock(chain[1]) /\ height = 0)

(* C4 -- The uninitialized height is never observable after construction:  *)
(* every getChainHeight() resolves with a value >= 0, and no submitStar    *)
(* call is made on an empty chain.                                         *)

C4_HeightNeverObservedUninitialized ==
  \A p \in Calls :
    /\ (call[p].kind = "getChainHeight" /\ Settled(p)) => ret[p].val.val >= 0
    /\ IsSubmit(p) => call[p].seen >= 1

(* C5 -- Ownership gate: every star block of the chain was appended by a   *)
(* submitStar call whose message embeds a timestamp at most 300 seconds    *)
(* older than the time of submission and whose signature verifies against  *)
(* the message and the address stored as the block's owner.                *)

C5_OwnershipGate ==
  \A i \in 1..Len(chain) :
    IsStarBlock(chain[i]) =>
      \E p \in Calls :
        /\ IsSubmit(p)
        /\ BlockOfCall(chain[i], p)
        /\ WellFormed(p)
        /\ Elapsed(p) <= timeLimit
        /\ SignatureOK(p)

(* C6 -- Height/sequence consistency: at every await point of every call,  *)
(* height = length(chain) - 1.                                             *)

C6_HeightConsistency == height = Len(chain) - 1

\* a block was pushed while other calls are suspended at an await
C6_Witness ==
  /\ Len(chain) >= 2
  /\ \E p \in Procs : InFlight(p)
  /\ \E p \in Calls : call[p].kind = "getChainHeight" /\ ret[p].val.val >= 1

(* C7 -- Challenge expiry boundary: a submitStar call with elapsed = 300   *)
(* is not rejected as expired, and succeeds when its signature is valid    *)
(* and the chain is valid; a call with elapsed >= 301 is rejected with the *)
(* challenge-expired error and appends no block, whatever the signature.   *)

NoBlockOfCall(p) == \A i \in 1..Len(chain) : ~BlockOfCall(chain[i], p)

C7_ChallengeExpiryBoundary ==
  \A p \in Calls :
    (IsSubmit(p) /\ WellFormed(p)) =>
      /\ Elapsed(p) >= timeLimit + 1 =>
           /\ Settled(p)
           /\ ret[p] = Rejected(ErrExpired, "")
           /\ NoBlockOfCall(p)
      /\ Elapsed(p) = timeLimit =>
           /\ ret[p].err # ErrExpired
           /\ (SignatureOK(p) /\ ChainValid) =>
                /\ pc[p] # "hung"
                /\ Settled(p) => ret[p].status = "resolved"

(* C8 -- Signature gate, as stated: a submitStar call whose signature does *)
(* not verify against (message, address) is rejected with the ownership-   *)
(* verification-failed error, and chain and height are unchanged.          *)

C8_SignatureGateAsStated ==
  \A p \in Calls :
    (IsSubmit(p) /\ call[p].message.str /\ ~SignatureOK(p)) =>
      /\ Settled(p)
      /\ ret[p] = Rejected(ErrVerification, "")
      /\ NoBlockOfCall(p)

(* C8 (amended) -- Signature gate: a submitStar call whose challenge has   *)
(* not expired (its message embeds no timestamp older than 300 seconds)    *)
(* and whose signature does not verify against (message, address) is       *)
(* rejected with the ownership-verification-failed error, and chain and    *)
(* height are unchanged.                                                   *)

\* call p is made in this step, with a message and a signature that does not
\* verify
BadSignatureCall(p) ==
  /\ pc[p] = "idle"
  /\ pc'[p] # "idle"
  /\ call'[p].kind = "submitStar"
  /\ call'[p].message.str
  /\ ~Verify(call'[p].message, call'[p].address, call'[p].signature)

VerificationFailed(p) ==
  /\ pc'[p] = "done"
  /\ ret'[p] = Rejected(ErrVerification, "")
  /\ chain' = chain
  /\ height' = height

\* the message of the call made in this step embeds a timestamp more than
\* timeLimit seconds old
ExpiredCall(p) ==
  /\ ~ParseIntField(Split(call'[p].message.text)).nan
  /\ call'[p].at - ParseIntField(Split(call'[p].message.text)).val > timeLimit

C8_SignatureGate ==
  [][\A p \in Calls :
       (BadSignatureCall(p) /\ ~ExpiredCall(p)) => VerificationFailed(p)]_vars

\* a call with a fresh challenge and a wrong signature was rejected on an
\* initialized ledger
C8_Witness ==
  \E p \in Calls :
    /\ IsSubmit(p)
    /\ WellFormed(p)
    /\ Elapsed(p) <= timeLimit
    /\ ~SignatureOK(p)
    /\ call[p].seen >= 1
    /\ Settled(p)
    /\ ret[p] = Rejected(ErrVerification, "")

(* C9 -- Malformed challenge message: a submitStar call whose message does *)
(* not parse into address:timestamp:tag is rejected by the error handler   *)
(* before the expiry and signature checks, and appends no block.           *)

C9_MalformedMessageRejected ==
  \A p \in Calls :
    (IsSubmit(p) /\ ~WellFormed(p)) =>
      /\ Settled(p)
      /\ ret[p].status = "rejected"
      /\ ret[p].err = ErrRegister
      /\ NoBlockOfCall(p)

(* C10 -- Pre-append integrity check: an _addBlock call made while the     *)
(* chain holds a block that fails validation or a broken link is rejected  *)
(* with the chain-corrupted error; it never seals or pushes its block.     *)

\* the chain as it was when call p was made
ChainSeenBy(p) == SubSeq(chain, 1, call[p].seen)

DefectiveWhenCalled(p) ==
  \/ \E i \in 1..Len(ChainSeenBy(p)) : ~BlockValidate(chain[i])
  \/ \E i \in 2..Len(ChainSeenBy(p)) : ~LinkOK(i)

\* call p went past the checks of submitStar and into _addBlock
EnteredAddBlock(p) ==
  /\ IsSubmit(p)
  /\ SubmitGate(call[p].address, call[p].message, call[p].signature,
                call[p].at).status # "rejected"

C10_PreAppendIntegrityCheck ==
  \A p \in Calls :
    (EnteredAddBlock(p) /\ DefectiveWhenCalled(p)) =>
      /\ pc[p] \notin {"hung", "ab_await_validate"}
      /\ pc[p] = "caller_await" =>
           local[p].added = Rejected(ErrAddBlock, ErrDefective)
      /\ Settled(p) => ret[p] = Rejected(ErrRegister, ErrAddBlock)
      /\ NoBlockOfCall(p)

(* C11 -- validateChain result: every validateChain() call resolves, never *)
(* hangs or rejects, with a list holding one entry per block that fails    *)
(* its own validation and one entry per broken link of the chain it was    *)
(* called on; the list is empty exactly when that chain is fully valid.    *)

IsValidateChain(p) == call[p].kind = "validateChain"

\* the number of entries owed for chain ch: failing blocks plus broken links
DefectCount(ch) ==
  Cardinality({i \in 1..Len(ch) : ~BlockValidate(ch[i])})
    + Cardinality({i \in 2..Len(ch) :
                     ch[i].previousBlockHash # ch[i - 1].hash})

\* call p and the calls before it were made on the initialized ledger
CalledAfterGenesis(p) ==
  /\ call[p].seen >= 1
  /\ \A q \in Calls :
       (q < p /\ call[q].kind \in {"submitStar", "initializeChain"}) =>
         call[q].seen >= 1

\* nothing was appended since call p was made
ChainAsSeenBy(p) == Len(chain) = call[p].seen

C11_ValidateChainResult ==
  \A p \in Calls :
    (IsValidateChain(p) /\ CalledAfterGenesis(p) /\ ChainAsSeenBy(p)) =>
      /\ pc[p] # "hung"
      /\ Settled(p) =>
           /\ ret[p].status = "resolved"
           /\ Len(ret[p].val) = DefectCount(chain)

(* C12 -- No operation blocks indefinitely: no call of submitStar,         *)
(* _addBlock (through submitStar or initializeChain) or validateChain ever *)
(* stops without having settled its promise; in particular no submitStar   *)
(* made on a chain of two or more blocks does.  A call at "hung" has       *)
(* thrown inside its async executor: no continuation of it is queued and   *)
(* its promise stays pending in every later state.                         *)

EntersValidateChain(p) ==
  call[p].kind \in {"submitStar", "initializeChain", "validateChain"}

C12_NoOperationBlocksIndefinitely ==
  \A p \in Calls :
    (EntersValidateChain(p) /\ CalledAfterGenesis(p) /\ ChainAsSeenBy(p)) =>
      ~(pc[p] = "hung" /\ ret[p] = Pending)

(* C13 -- Ownership query: what a getStarsByWalletAddress(A) call made     *)
(* after successful submitStar calls delivers to its caller is exactly the *)
(* decoded payloads of the blocks whose owner is A, in chain order, the    *)
(* genesis block never among them.                                         *)

IsGetStars(p) == call[p].kind = "getStarsByWalletAddress"

RECURSIVE StarsOwnedBy(_, _)
\* the decoded payloads of the blocks of ch owned by address, in chain order
StarsOwnedBy(ch, address) ==
  IF ch = <<>> THEN <<>>
  ELSE LET data == GetBData(Head(ch))
           rest == StarsOwnedBy(Tail(ch), address)
       IN  IF data.status = "resolved" /\ OwnedBy(data.val, address)
           THEN <<data.val>> \o rest
           ELSE rest

C13_OwnershipQuery ==
  \A p \in Calls :
    (IsGetStars(p) /\ CalledAfterGenesis(p) /\ ret[p] # Pending) =>
      /\ ret[p].status = "resolved"
      /\ ret[p].val = StarsOwnedBy(ChainSeenBy(p), call[p].address)

(* C14 -- Genesis invariant: once the initialization of a freshly          *)
(* constructed ledger has completed, getChainHeight() is 0 and             *)
(* getBlockByHeight(0) is the block with payload {data: "Genesis Block"},  *)
(* height 0 and the null previousBlockHash; in every later state chain[0]  *)
(* is still that block.  (Calls made before the genesis block was pushed   *)
(* are the case of C4 and are left out here.)                              *)

IsGetChainHeight(p) == call[p].kind = "getChainHeight"

IsGetBlockByHeight(p) == call[p].kind = "getBlockByHeight"

Appends(p) == call[p].kind \in {"submitStar", "initializeChain"}

InitializationCompleted == pc[0] = "done"

\* no appending call was made before the genesis block was pushed
NoEarlyAppend == \A q \in Calls : Appends(q) => call[q].seen >= 1

GenesisInPlace ==
  /\ Len(chain) >= 1
  /\ chain[1].body = Encode(GenesisData)
  /\ GetBData(chain[1]) = Resolved(GenesisData)
  /\ chain[1].height = 0
  /\ chain[1].previousBlockHash = Null

\* what the calls made on the ledger holding only the genesis block returned
FreshLedgerObservations ==
  \A p \in Calls :
    /\ (IsGetChainHeight(p) /\ call[p].seen = 1) => ret[p] = Resolved(Num(0))
    /\ (IsGetBlockByHeight(p) /\ call[p].arg = 0 /\ call[p].seen >= 1) =>
         ret[p] = Resolved(chain[1])

C14_GenesisState ==
  (InitializationCompleted /\ NoEarlyAppend) =>
    /\ GenesisInPlace
    /\ FreshLedgerObservations
    /\ (\A q \in Calls : ~Appends(q)) => (height = 0 /\ Len(chain) = 1)

C14_GenesisInvariant ==
  /\ []C14_GenesisState
  /\ [][Len(chain) >= 1 => chain'[1] = chain[1]]_vars

\* a star was appended after initialization and getBlockByHeight(0) then
\* returned the genesis block
C14_Witness ==
  /\ InitializationCompleted
  /\ NoEarlyAppend
  /\ Len(chain) >= 2
  /\ \E p \in Calls :
       /\ IsGetBlockByHeight(p)
       /\ call[p].arg = 0
       /\ call[p].seen >= 2
       /\ ret[p] = Resolved(chain[1])

(* C15 -- getBlockByHeight(h) is an index lookup: every call resolves,     *)
(* with chain[h] when 0 <= h <= height and with null otherwise; it never   *)
(* rejects and never returns a block stored at another index than h.       *)
(* (chain[h] of the source is chain[h + 1] here; the chain and the height  *)
(* are those at the call, and the chain only grows.)                       *)

C15_GetBlockByHeightIsIndexLookup ==
  \A p \in Calls :
    (IsGetBlockByHeight(p) /\ Settled(p)) =>
      /\ ret[p].status = "resolved"
      /\ ret[p].val =
           IF 0 <= call[p].arg /\ call[p].arg <= call[p].seen - 1
           THEN chain[call[p].arg + 1]
           ELSE Null

(* C16 -- Append-only ledger: every step leaves the chain as it is or adds *)
(* one block at its tail; a block in the chain is never removed, moved or  *)
(* replaced and none of its fields changes; the height never decreases.    *)

ChainExtendedByOne ==
  /\ Len(chain') = Len(chain) + 1
  /\ SubSeq(chain', 1, Len(chain)) = chain

C16_AppendOnly ==
  [][/\ chain' = chain \/ ChainExtendedByOne
     /\ \A i \in 1..Len(chain) : i <= Len(chain') /\ chain'[i] = chain[i]
     /\ height' >= height]_vars

\* two blocks were appended after the genesis block by calls made on the
\* initialized ledger
C16_Witness ==
  /\ Len(chain) >= 3
  /\ NoEarlyAppend
  /\ IsGenesisBlock(chain[1])
  /\ IsStarBlock(chain[2])
  /\ IsStarBlock(chain[3])

(* C17 -- Cheap checks first: a submitStar call whose message is expired   *)
(* (elapsed > 300) and whose signature is invalid is rejected with the     *)
(* challenge-expired error, and bitcoinMessage.verify is not invoked in    *)
(* that call.                                                              *)

ExpiredAndBadSignature(p) ==
  /\ IsSubmit(p)
  /\ WellFormed(p)
  /\ Elapsed(p) > timeLimit
  /\ ~SignatureOK(p)

C17_CheapChecksFirst ==
  \A p \in Calls :
    ExpiredAndBadSignature(p) =>
      /\ Settled(p)
      /\ ret[p] = Rejected(ErrExpired, "")
      /\ ~call[p].verified

C17_Witness ==
  \E p \in Calls :
    /\ ExpiredAndBadSignature(p)
    /\ Settled(p)
    /\ ret[p] = Rejected(ErrExpired, "")
    /\ ~call[p].verified

(* C18 -- submitStar success and propagation: a submitStar call that       *)
(* resolves, resolves with the block it built from {star, owner: address}, *)
(* and that block is in the chain, pushed by this call with the height     *)
(* incremented by exactly one; when its _addBlock rejects, the call        *)
(* rejects with that failure and no block of it is in the chain.           *)

InChain(b) == \E i \in 1..Len(chain) : chain[i] = b

\* the settled calls
C18_Settled ==
  \A p \in Calls :
    (IsSubmit(p) /\ Settled(p)) =>
      /\ ret[p].status = "resolved" =>
           /\ BlockOfCall(ret[p].val, p)
           /\ InChain(ret[p].val)
      /\ ret[p].status = "rejected" => NoBlockOfCall(p)

\* the step in which the _addBlock of call p settles
C18_AddBlockSettles(p) ==
  (IsSubmit(p) /\ pc[p] = "ab_await_validate" /\ pc'[p] = "caller_await") =>
    IF local'[p].added.status = "resolved"
    THEN /\ BlockOfCall(local'[p].added.val, p)
         /\ chain' = Append(chain, local'[p].added.val)
         /\ height' = height + 1
    ELSE /\ chain' = chain
         /\ height' = height

\* the step in which call p settles after its _addBlock has
C18_Propagates(p) ==
  (IsSubmit(p) /\ pc[p] = "caller_await" /\ pc'[p] = "done") =>
    /\ chain' = chain
    /\ height' = height
    /\ IF local[p].added.status = "resolved"
       THEN ret'[p] = Resolved(local[p].added.val)
       ELSE /\ ret'[p].status = "rejected"
            /\ ret'[p].cause = local[p].added.err

C18_SubmitStarSuccessAndPropagation ==
  /\ []C18_Settled
  /\ [][\A p \in Calls : C18_AddBlockSettles(p) /\ C18_Propagates(p)]_vars

\* a submitStar call made on the initialized ledger has resolved with its
\* block, which is the last of the chain
C18_Witness ==
  \E p \in Calls :
    /\ IsSubmit(p)
    /\ call[p].seen >= 1
    /\ Settled(p)
    /\ ret[p].status = "resolved"
    /\ BlockOfCall(ret[p].val, p)
    /\ chain[Len(chain)] = ret[p].val
    /\ height = call[p].seen

\* in no reachable state has an _addBlock call rejected: the second half of
\* C18 is never put to the test by a run
AddBlockNeverRejects ==
  \A p \in Procs : local[p].added.status # "rejected"

(* C20 -- Block timestamps are non-decreasing along the chain in every     *)
(* reachable state, also when several appends are in flight at once: each  *)
(* block takes its time from the non-decreasing clock when it is sealed,   *)
(* and blocks are pushed in the order in which they were sealed.           *)

C20_TimestampsNonDecreasing ==
  \A i \in 2..Len(chain) : chain[i].time >= chain[i - 1].time

\* two appends were in flight at once, the clock moved between their seals,
\* and both blocks are in the chain
C20_Witness ==
  /\ Len(chain) >= 3
  /\ chain[3].time > chain[2].time
  /\ \E p, q \in Calls :
       /\ p # q
       /\ IsSubmit(p) /\ IsSubmit(q)
       /\ call[p].seen = 1 /\ call[q].seen = 1
       /\ BlockOfCall(chain[2], p)
       /\ BlockOfCall(chain[3], q)

(* C19 -- Skip-and-continue on decode failure: when the payload of a block *)
(* (the genesis block included) fails to decode during a                   *)
(* getStarsByWalletAddress call, the call does not reject, the scan goes   *)
(* on, and every other block whose decoded owner is the address is still   *)
(* returned to the caller.                                                 *)

\* the payload of some block failed to decode in call p
DecodeFailedIn(p) ==
  \E k \in 1..Len(local[p].decoded) : local[p].decoded[k].status = "rejected"

RECURSIVE OwnedAmong(_, _)
\* the payloads among the decode outcomes that are owned by address, in order
OwnedAmong(outcomes, address) ==
  IF outcomes = <<>> THEN <<>>
  ELSE LET data == Head(outcomes)
           rest == OwnedAmong(Tail(outcomes), address)
       IN  IF data.status = "resolved" /\ OwnedBy(data.val, address)
           THEN <<data.val>> \o rest
           ELSE rest

C19_SkipAndContinue ==
  \A p \in Calls :
    (IsGetStars(p) /\ DecodeFailedIn(p)) =>
      /\ ret[p].status # "rejected"
      /\ local[p].scan = <<>> =>
           local[p].stars = OwnedAmong(local[p].decoded, call[p].address)
      /\ ret[p] # Pending =>
           ret[p] = Resolved(OwnedAmong(local[p].decoded, call[p].address))

====
